---- MODULE Spec2Model ----
(***************************************************************************)
(* The agent functions of src/rag_pipeline.py (get_jigyasa_response,       *)
(* check_for_contradictions, get_contextual_summary,                       *)
(* structure_financial_data, get_socratic_guidance) as a state machine.    *)
(*                                                                         *)
(* FastAPI runs the synchronous endpoints of src/main.py on a thread pool, *)
(* so several calls are in flight at once.  Every call builds its vector   *)
(* index with Chroma.from_documents(documents=..., embedding=...) and      *)
(* names neither a collection nor a client nor a directory, so every call  *)
(* works on the library's default collection of the one in-process         *)
(* client: the collection is state shared by the calls in flight.          *)
(*                                                                         *)
(* Strings are TLA+ strings; None is the record NoneValue.                 *)
(***************************************************************************)
EXTENDS Integers, Sequences, FiniteSets, TLC

\* ------------------------------------------------------------------ bounds

\* Longest notes list handed to a call.
MaxNotes == 2

\* The calls in flight (worker threads of the serving layer).
Requests == {"r1", "r2"}

\* Note texts (a list may repeat one: duplicate notes are legal).  The text is
\* shorter than chunk_size, so the splitter leaves it whole; no step of the
\* functions branches on it.
NoteTexts == {"Revenue grew 10% in 2023"}

\* Texts the language model may answer with.
Responses ==
    { "CONTRADICTION: figures conflict.",
      " CONTRADICTION: figures conflict.\n",
      "NO_CONTRADICTION",
      "",
      " \n",
      "The notes agree. CONTRADICTION: none",
      "Error: The Verifier Agent encountered a problem." }

\* s written n times.
RECURSIVE Repeat(_, _)
Repeat(s, n) ==
    IF n = 0 THEN ""
    ELSE LET half == Repeat(s, n \div 2)
         IN  half \o half \o (IF n % 2 = 1 THEN s ELSE "")

\* An article of exactly 8000 characters, and one of 10000.
Article8000 == Repeat("a", 7999) \o "b"
Article10000 == Repeat("a", 8000) \o Repeat("b", 2000)

\* Texts extracted from the <p> elements of a fetched page.
ArticleTexts == {"", "Margins fell.", Article8000, Article10000}

\* Messages of the exceptions the fetch may raise.
FetchErrors == {"timeout", ""}

\* ------------------------------------------------------------ the strings

EMPTY_NOTEBOOK == "The notebook is empty."
VERIFIER_ERROR == "Error: The Verifier Agent encountered a problem."
SUMMARY_EMPTY_NOTEBOOK ==
    "Your notebook is empty. Please add some notes before trying to get a smart summary."
COULD_NOT_EXTRACT == "Error: Could not extract readable text from this URL."
FETCH_FAILED_PREFIX == "Error: Failed to fetch or parse the URL. Details: "
CONTRADICTION_MARKER == "CONTRADICTION:"

\* The collection Chroma.from_documents uses when the caller names none.
DefaultCollection == "langchain"

NoneValue == [tag |-> "None"]
Str(s) == [tag |-> "str", val |-> s]
NoResult == [tag |-> "unset"]

\* ------------------------------------------------------- string functions

Whitespace == {" ", "\t", "\n", "\r", "\f"}

\* str.startswith
startswith(s, prefix) ==
    /\ Len(s) >= Len(prefix)
    /\ SubSeq(s, 1, Len(prefix)) = prefix

RECURSIVE lstrip(_)
lstrip(s) ==
    IF Len(s) > 0 /\ SubSeq(s, 1, 1) \in Whitespace
    THEN lstrip(SubSeq(s, 2, Len(s)))
    ELSE s

RECURSIVE rstrip(_)
rstrip(s) ==
    IF Len(s) > 0 /\ SubSeq(s, Len(s), Len(s)) \in Whitespace
    THEN rstrip(SubSeq(s, 1, Len(s) - 1))
    ELSE s

\* str.strip
strip(s) == rstrip(lstrip(s))

\* ------------------------------------------------------------------ state

VARIABLES
    chroma,      \* the in-process client: collection name -> documents held
    pc,          \* each call's position
    op,          \* the function called
    notes,       \* its notes / existing_notes argument, as the list reads now
    article,     \* new_article_text of get_contextual_summary
    retrieved,   \* the documents the retriever returned to the call
    response,    \* the raw text the language model returned to the call
    answer,      \* the value the call is about to return (answer, summary, the try block's return value)
    result,      \* the value returned
    calls,       \* invocations of each collaborator by the call
    faults,      \* the collaborator steps that raised in the call
    events       \* the steps of the call, in the order taken

VARIABLES
    notes_db,    \* main.py's module-level list of notes
    endpoint,    \* the endpoint of main.py the request came in by ("none": the function was called directly)
    aliased,     \* whether the call's notes parameter is the notes_db list itself
    snapshot,    \* notes_db as it was when the request began
    new_note,    \* latest_note of run_contradiction_check
    reply,       \* what the endpoint answered the request with
    used,        \* the notes the call read when it made its documents or joined them
    new_article  \* the text the summary chain was invoked with

VARIABLES
    data,        \* the dictionary calculate_final_report is called with
    results,     \* its results dictionary
    section      \* the section of calculate_final_report to run next

\* What the agent functions never assign.
service_vars == <<notes_db, endpoint, aliased, snapshot, new_note, reply>>
report_vars == <<data, results, section>>
frame == <<service_vars, report_vars>>

vars == <<chroma, pc, op, notes, article, retrieved, response, answer, result,
          calls, faults, events, frame, used, new_article>>

Ops == { "get_jigyasa_response", "check_for_contradictions",
         "get_contextual_summary", "structure_financial_data",
         "get_socratic_guidance" }

IndexOps == { "get_jigyasa_response", "check_for_contradictions",
              "get_contextual_summary" }

NoteLists == UNION { [1..n -> NoteTexts] : n \in 0..MaxNotes }

NoCalls == [embed |-> 0, build |-> 0, fetch |-> 0, generate |-> 0, delete |-> 0]

Terminal(r) == pc[r] \in {"returned", "raised"}

Put(f, r, v) == [f EXCEPT ![r] = v]

Range(s) == { s[i] : i \in DOMAIN s }

Min(a, b) == IF a <= b THEN a ELSE b

\* IsEmpty with the guard forgotten: no list counts as empty.
IsEmpty_never(ns) == Len(ns) < 0

\* `not notes` / `not existing_notes`
IsEmpty(ns) == Len(ns) = 0

\* ---------------------------------------------------------- collaborators

\* RecursiveCharacterTextSplitter(chunk_size=1000, chunk_overlap=100): its
\* default separators, tried in this order, each kept at the start of the
\* piece that follows it.
chunk_size == 1000
chunk_overlap == 100
Separators == <<"\n\n", "\n", " ", "">>

SetMin(S) == CHOOSE x \in S : \A y \in S : x <= y
SetMax(S) == 0 - SetMin({ 0 - y : y \in S })

\* re.split on the escaped separator: the positions of lo..hi where a match
\* starts, matches taken leftmost and not overlapping.  A separator is one
\* character, or one character twice: in a run of that character the matches
\* start at every second position.
Matches(t, lo, hi, sep) ==
    LET n == Len(sep)
        c == SubSeq(sep, 1, 1)
        At(i) == i + n - 1 <= hi /\ SubSeq(t, i, i + n - 1) = sep
        RunStart(i) ==
            1 + SetMax({lo - 1} \cup { j \in lo..(i - 1) : SubSeq(t, j, j) # c })
    IN  IF n = 1
        THEN { i \in lo..hi : At(i) }
        ELSE { i \in lo..hi : At(i) /\ (i - RunStart(i)) % 2 = 0 }

\* _split_text_with_regex(text, separator, keep_separator=True) on t[lo..hi],
\* with the empty pieces dropped: where the pieces start.  With the separator
\* "" the pieces are the characters.
Starts(t, lo, hi, sep) ==
    IF sep = "" THEN lo..hi ELSE {lo} \cup Matches(t, lo, hi, sep)

\* _join_docs: the joined pieces stripped, and no chunk when nothing is left.
join_docs(text) == IF strip(text) = "" THEN << >> ELSE <<strip(text)>>

\* _merge_splits(splits, "") on the consecutive pieces that start at the
\* positions of S from x on and end before `end`: pieces are added while the
\* total stays within chunk_size; then the chunk is emitted and pieces are
\* popped from its front while more than chunk_overlap is kept, or while the
\* next piece still does not fit.
RECURSIVE merge_splits(_, _, _, _)
merge_splits(t, S, x, end) ==
    LET B == S \cup {end}
        e == SetMax({ y \in B : y > x /\ y - x <= chunk_size })
    IN  IF e = end
        THEN join_docs(SubSeq(t, x, end - 1))
        ELSE LET next == SetMin({ y \in B : y > e })
                 keep == SetMin({ y \in S : /\ x <= y /\ y <= e
                                            /\ e - y <= chunk_overlap
                                            /\ \/ (e - y) + (next - e) <= chunk_size
                                               \/ e = y })
             IN  join_docs(SubSeq(t, x, e - 1)) \o merge_splits(t, S, keep, end)

\* RecursiveCharacterTextSplitter._split_text(text, separators) on t[lo..hi]
\* with the separators from the k-th on: the first separator found in the
\* text splits it; pieces shorter than chunk_size are merged run by run, a
\* longer piece is split again with the separators after that one (and kept
\* whole when there is none).
RECURSIVE split_text(_, _, _, _)
RECURSIVE split_pieces(_, _, _, _, _, _)
split_pieces(t, S, p, end, k, sep) ==
    IF p = end THEN << >>
    ELSE LET B == S \cup {end}
             After(y) == SetMin({ z \in B : z > y })
             Big(y) == After(y) - y >= chunk_size
         IN  IF Big(p)
             THEN (IF sep = "" \/ k >= Len(Separators)
                   THEN <<SubSeq(t, p, After(p) - 1)>>
                   ELSE split_text(t, p, After(p) - 1, k + 1))
                  \o split_pieces(t, S, After(p), end, k, sep)
             ELSE LET g == SetMin({ y \in B : y > p /\ (y = end \/ Big(y)) })
                  IN  merge_splits(t, { y \in S : p <= y /\ y < g }, p, g)
                      \o split_pieces(t, S, g, end, k, sep)

split_text(t, lo, hi, k) ==
    LET i == SetMin({ j \in k..Len(Separators) :
                        \/ Separators[j] = ""
                        \/ Matches(t, lo, hi, Separators[j]) # {} })
        sep == Separators[i]
    IN  split_pieces(t, Starts(t, lo, hi, sep), lo, hi + 1, i, sep)

\* split_documents without the splitter: every note is one chunk.
split_documents_whole(ns) == ns

\* text_splitter.split_documents(docs): the chunks of every note, in order.
RECURSIVE split_documents(_)
split_documents(ns) ==
    IF ns = << >> THEN << >>
    ELSE split_text(Head(ns), 1, Len(Head(ns)), 1) \o split_documents(Tail(ns))

\* The documents a call adds to its collection; Chroma gives every added
\* document a fresh id, here the call and the position.
Documents(r, texts) ==
    { [owner |-> r, idx |-> i, text |-> texts[i]] : i \in DOMAIN texts }

\* Chroma.from_documents(documents=docs, embedding=embeddings): gets or
\* creates the collection of that name in the client and adds the documents.
from_documents(store, name, docs) ==
    [n \in DOMAIN store \cup {name} |->
        IF n = name
        THEN (IF n \in DOMAIN store THEN store[n] ELSE {}) \cup docs
        ELSE store[n]]

\* vectorstore.delete_collection(): drops the collection of that name.
delete_collection(store, name) ==
    [n \in DOMAIN store \ {name} |-> store[n]]

\* retriever.invoke with search_kwargs={"k": k}: k documents of the
\* collection, or all of them when it holds fewer; which ones is the
\* embedding's ranking, left open.
similarity_search(store, name, k) ==
    { S \in SUBSET store[name] :
        Cardinality(S) = Min(k, Cardinality(store[name])) }

\* The documents of call r still held by some collection.
OwnDocuments(r) ==
    UNION { { d \in chroma[n] : d.owner = r } : n \in DOMAIN chroma }

\* ---------------------------------------------------------------- helpers

Advance(r, to, steps) ==
    /\ pc' = Put(pc, r, to)
    /\ events' = Put(events, r, events[r] \o steps)

Called(r, what) ==
    calls' = Put(calls, r,
        [c \in DOMAIN calls[r] |-> calls[r][c] + (IF c \in what THEN 1 ELSE 0)])

Fault(r, f) == faults' = Put(faults, r, faults[r] \cup {f})

\* `return v`
Return(r, v, steps) ==
    /\ Advance(r, "returned", steps \o <<"return">>)
    /\ result' = Put(result, r, v)

\* an exception leaves the function
Raise(r, steps) ==
    /\ Advance(r, "raised", steps \o <<"raise">>)
    /\ UNCHANGED result

\* The JSON body {key: v} with status 200; the 500 the server answers when
\* the handler raised; no answer yet.
Ok(key, v) == [status |-> 200, key |-> key, body |-> v]
ServerError == [status |-> 500]
NoReply == [status |-> 0]

\* ------------------------------------------------------------------- Init

Init ==
    /\ chroma = << >>
    /\ pc = [r \in Requests |-> "idle"]
    /\ op = [r \in Requests |-> "none"]
    /\ notes = [r \in Requests |-> << >>]
    /\ article = [r \in Requests |-> ""]
    /\ retrieved = [r \in Requests |-> {}]
    /\ response = [r \in Requests |-> ""]
    /\ answer = [r \in Requests |-> NoResult]
    /\ result = [r \in Requests |-> NoResult]
    /\ calls = [r \in Requests |-> NoCalls]
    /\ faults = [r \in Requests |-> {}]
    /\ events = [r \in Requests |-> << >>]
    /\ notes_db = << >>
    /\ endpoint = [r \in Requests |-> "none"]
    /\ aliased = [r \in Requests |-> FALSE]
    /\ snapshot = [r \in Requests |-> << >>]
    /\ new_note = [r \in Requests |-> ""]
    /\ reply = [r \in Requests |-> NoReply]
    /\ used = [r \in Requests |-> << >>]
    /\ new_article = [r \in Requests |-> ""]
    /\ data = << >>
    /\ results = << >>
    /\ section = "idle"

\* A worker thread enters one of the agent functions.
Call(r) ==
    /\ pc[r] = "idle"
    /\ \E o \in Ops, ns \in NoteLists :
          /\ op' = Put(op, r, o)
          /\ notes' = Put(notes, r, ns)
    /\ pc' = Put(pc, r, "entry")
    /\ UNCHANGED <<chroma, article, retrieved, response, answer, result,
                   calls, faults, events, frame, used, new_article>>

\* ------------------------------------------------- get_jigyasa_response

\* if not notes: return "The notebook is empty."
J_Empty(r) ==
    /\ op[r] = "get_jigyasa_response" /\ pc[r] = "entry"
    /\ IsEmpty(notes[r])
    /\ Return(r, Str(EMPTY_NOTEBOOK), << >>)
    /\ UNCHANGED <<chroma, frame, used, new_article, op, notes, article, retrieved, response, answer,
                   calls, faults>>

\* docs, splits, FastEmbedEmbeddings(), Chroma.from_documents: outside any try.
J_Build(r) ==
    /\ op[r] = "get_jigyasa_response" /\ pc[r] = "entry"
    /\ ~IsEmpty(notes[r])
    /\ used' = Put(used, r, notes[r])
    /\ Called(r, {"embed", "build"})
    /\ \/ /\ chroma' = from_documents(chroma, DefaultCollection,
                          Documents(r, split_documents(notes[r])))
          /\ Advance(r, "built", <<"build">>)
          /\ UNCHANGED <<faults, result>>
       \/ /\ chroma' \in {chroma, from_documents(chroma, DefaultCollection, {})}
          /\ Fault(r, "build")
          /\ Raise(r, << >>)
    /\ UNCHANGED <<frame, new_article, op, notes, article, retrieved, response, answer>>

\* rag_chain.invoke(question), first stage: the retriever, k = 3.
J_Retrieve(r) ==
    /\ op[r] = "get_jigyasa_response" /\ pc[r] = "built"
    /\ Called(r, {"embed"})
    /\ \/ /\ DefaultCollection \in DOMAIN chroma
          /\ \E S \in similarity_search(chroma, DefaultCollection, 3) :
                retrieved' = Put(retrieved, r, S)
          /\ Advance(r, "retrieved", <<"retrieve">>)
          /\ UNCHANGED <<faults, result>>
       \/ /\ Fault(r, "retrieve")
          /\ Raise(r, << >>)
          /\ UNCHANGED retrieved
    /\ UNCHANGED <<chroma, frame, used, new_article, op, notes, article, response, answer>>

\* rag_chain.invoke(question), SYNTHESIS_PROMPT | llm | StrOutputParser().
J_Generate(r) ==
    /\ op[r] = "get_jigyasa_response" /\ pc[r] = "retrieved"
    /\ Called(r, {"generate"})
    /\ \/ \E text \in Responses :
             /\ response' = Put(response, r, text)
             /\ answer' = Put(answer, r, Str(text))
             /\ Advance(r, "generated", <<"prompt", "generate">>)
             /\ UNCHANGED <<faults, result>>
       \/ /\ Fault(r, "generate")
          /\ Raise(r, <<"prompt">>)
          /\ UNCHANGED <<response, answer>>
    /\ UNCHANGED <<chroma, frame, used, new_article, op, notes, article, retrieved>>

\* J_Delete with the delete_collection() line forgotten.
J_Delete_skipped(r) ==
    /\ op[r] = "get_jigyasa_response" /\ pc[r] = "generated"
    /\ Return(r, answer[r], << >>)
    /\ UNCHANGED <<chroma, frame, used, new_article, op, notes, article, retrieved, response, answer,
                   calls, faults>>

\* vectorstore.delete_collection(); return answer
J_Delete(r) ==
    /\ op[r] = "get_jigyasa_response" /\ pc[r] = "generated"
    /\ Called(r, {"delete"})
    /\ \/ /\ DefaultCollection \in DOMAIN chroma
          /\ chroma' = delete_collection(chroma, DefaultCollection)
          /\ Return(r, answer[r], <<"destroy">>)
          /\ UNCHANGED faults
       \/ /\ Fault(r, "delete")
          /\ Raise(r, << >>)
          /\ UNCHANGED chroma
    /\ UNCHANGED <<frame, used, new_article, op, notes, article, retrieved, response, answer>>

\* --------------------------------------------- check_for_contradictions

\* verifier_result that tests the trimmed text and returns the raw one.
verifier_result_untrimmed(text) ==
    IF text # "" /\ startswith(strip(text), CONTRADICTION_MARKER)
    THEN Str(text)
    ELSE NoneValue

\* if response and response.strip().startswith("CONTRADICTION:"):
\*     return response.strip()
\* else: return None
verifier_result(text) ==
    IF text # "" /\ startswith(strip(text), CONTRADICTION_MARKER)
    THEN Str(strip(text))
    ELSE NoneValue

\* V_Except with no except clause: the exception leaves the function
\* (after the finally block).
V_Except_propagates(r, f, steps) ==
    /\ Fault(r, f)
    /\ Raise(r, steps)
    /\ UNCHANGED answer

\* except Exception as e: print(...); return "Error: The Verifier Agent ..."
\* (the value is held until the finally block has run)
V_Except(r, f, steps) ==
    /\ Fault(r, f)
    /\ answer' = Put(answer, r, Str(VERIFIER_ERROR))
    /\ Advance(r, "finally", steps)
    /\ UNCHANGED result

\* if not existing_notes: return None
V_Empty(r) ==
    /\ op[r] = "check_for_contradictions" /\ pc[r] = "entry"
    /\ IsEmpty(notes[r])
    /\ Return(r, NoneValue, << >>)
    /\ UNCHANGED <<chroma, frame, used, new_article, op, notes, article, retrieved, response, answer,
                   calls, faults>>

\* docs, splits, FastEmbedEmbeddings(), Chroma.from_documents: before the try.
V_Build(r) ==
    /\ op[r] = "check_for_contradictions" /\ pc[r] = "entry"
    /\ ~IsEmpty(notes[r])
    /\ used' = Put(used, r, notes[r])
    /\ Called(r, {"embed", "build"})
    /\ \/ /\ chroma' = from_documents(chroma, DefaultCollection,
                          Documents(r, split_documents(notes[r])))
          /\ Advance(r, "built", <<"build">>)
          /\ UNCHANGED <<faults, result>>
       \/ /\ chroma' \in {chroma, from_documents(chroma, DefaultCollection, {})}
          /\ Fault(r, "build")
          /\ Raise(r, << >>)
    /\ UNCHANGED <<frame, new_article, op, notes, article, retrieved, response, answer>>

\* try: verifier_chain.invoke(new_note), first stage: retriever | format_docs, k = 3.
V_Retrieve(r) ==
    /\ op[r] = "check_for_contradictions" /\ pc[r] = "built"
    /\ Called(r, {"embed"})
    /\ \/ /\ DefaultCollection \in DOMAIN chroma
          /\ \E S \in similarity_search(chroma, DefaultCollection, 3) :
                retrieved' = Put(retrieved, r, S)
          /\ Advance(r, "retrieved", <<"retrieve">>)
          /\ UNCHANGED <<faults, result, answer>>
       \/ /\ V_Except(r, "retrieve", << >>)
          /\ UNCHANGED retrieved
    /\ UNCHANGED <<chroma, frame, used, new_article, op, notes, article, response>>

\* verifier_chain.invoke(new_note), VERIFIER_PROMPT | llm | StrOutputParser(),
\* then the test of the response.
V_Generate(r) ==
    /\ op[r] = "check_for_contradictions" /\ pc[r] = "retrieved"
    /\ Called(r, {"generate"})
    /\ \/ \E text \in Responses :
             /\ response' = Put(response, r, text)
             /\ answer' = Put(answer, r, verifier_result(text))
             /\ Advance(r, "finally", <<"prompt", "generate">>)
             /\ UNCHANGED <<faults, result>>
       \/ /\ V_Except(r, "generate", <<"prompt">>)
          /\ UNCHANGED response
    /\ UNCHANGED <<chroma, frame, used, new_article, op, notes, article, retrieved>>

\* finally: try: vectorstore.delete_collection()
\*          except Exception as e: print(...)
\* and the pending return takes place.
V_Finally(r) ==
    /\ op[r] = "check_for_contradictions" /\ pc[r] = "finally"
    /\ Called(r, {"delete"})
    /\ \/ /\ DefaultCollection \in DOMAIN chroma
          /\ chroma' = delete_collection(chroma, DefaultCollection)
          /\ Return(r, answer[r], <<"destroy">>)
          /\ UNCHANGED faults
       \/ /\ Fault(r, "delete")
          /\ Return(r, answer[r], << >>)
          /\ UNCHANGED chroma
    /\ UNCHANGED <<frame, used, new_article, op, notes, article, retrieved, response, answer>>

\* ----------------------------------------------- get_contextual_summary

\* The longest article text handed to the chain.
MAX_ARTICLE_CHARS == 8000

\* truncate that keeps the end of the text instead of its start.
truncate_tail(text) ==
    SubSeq(text, Len(text) - Min(Len(text), MAX_ARTICLE_CHARS) + 1, Len(text))

\* new_article_text[:8000]
truncate(text) == SubSeq(text, 1, Min(Len(text), MAX_ARTICLE_CHARS))


\* return f"Error: Failed to fetch or parse the URL. Details: {e}"
fetch_failed(e) == Str(FETCH_FAILED_PREFIX \o e)

\* if not existing_notes: return "Your notebook is empty. ..."
S_Empty(r) ==
    /\ op[r] = "get_contextual_summary" /\ pc[r] = "entry"
    /\ IsEmpty(notes[r])
    /\ Return(r, Str(SUMMARY_EMPTY_NOTEBOOK), << >>)
    /\ UNCHANGED <<chroma, frame, used, new_article, op, notes, article, retrieved, response, answer,
                   calls, faults>>

\* S_FetchExcept that swallows the exception and goes on with no article text.
S_FetchExcept_continues(r, e) ==
    /\ Fault(r, "fetch")
    /\ Advance(r, "fetched", << >>)
    /\ UNCHANGED <<article, result>>

\* except Exception as e: return f"Error: Failed to fetch or parse ..."
S_FetchExcept(r, e) ==
    /\ Fault(r, "fetch")
    /\ Return(r, fetch_failed(e), << >>)
    /\ UNCHANGED article

\* S_Extracted without the test for an empty text.
S_Extracted_unchecked(r, text) ==
    /\ article' = Put(article, r, text)
    /\ Advance(r, "fetched", <<"fetch">>)
    /\ UNCHANGED <<result, faults>>

\* if not new_article_text: return "Error: Could not extract ..."
S_Extracted(r, text) ==
    /\ article' = Put(article, r, text)
    /\ IF text = ""
       THEN Return(r, Str(COULD_NOT_EXTRACT), <<"fetch">>)
       ELSE Advance(r, "fetched", <<"fetch">>) /\ UNCHANGED result
    /\ UNCHANGED faults

\* try: requests.get, BeautifulSoup, ' '.join(p.get_text() ...)
S_Fetch(r) ==
    /\ op[r] = "get_contextual_summary" /\ pc[r] = "entry"
    /\ ~IsEmpty(notes[r])
    /\ Called(r, {"fetch"})
    /\ \/ \E text \in ArticleTexts : S_Extracted(r, text)
       \/ \E e \in FetchErrors : S_FetchExcept(r, e)
    /\ UNCHANGED <<chroma, frame, used, new_article, op, notes, retrieved, response, answer>>

\* docs (the notes whole, no splitter), FastEmbedEmbeddings(), Chroma.from_documents
S_Build(r) ==
    /\ op[r] = "get_contextual_summary" /\ pc[r] = "fetched"
    /\ used' = Put(used, r, notes[r])
    /\ Called(r, {"embed", "build"})
    /\ \/ /\ chroma' = from_documents(chroma, DefaultCollection,
                          Documents(r, notes[r]))
          /\ Advance(r, "built", <<"build">>)
          /\ UNCHANGED <<faults, result>>
       \/ /\ chroma' \in {chroma, from_documents(chroma, DefaultCollection, {})}
          /\ Fault(r, "build")
          /\ Raise(r, << >>)
    /\ UNCHANGED <<frame, new_article, op, notes, article, retrieved, response, answer>>

\* smart_summary_chain.invoke(new_article_text[:8000]), first stage: the retriever, k = 5.
S_Retrieve(r) ==
    /\ op[r] = "get_contextual_summary" /\ pc[r] = "built"
    /\ new_article' = Put(new_article, r, truncate(article[r]))
    /\ Called(r, {"embed"})
    /\ \/ /\ DefaultCollection \in DOMAIN chroma
          /\ \E S \in similarity_search(chroma, DefaultCollection, 5) :
                retrieved' = Put(retrieved, r, S)
          /\ Advance(r, "retrieved", <<"retrieve">>)
          /\ UNCHANGED <<faults, result>>
       \/ /\ Fault(r, "retrieve")
          /\ Raise(r, << >>)
          /\ UNCHANGED retrieved
    /\ UNCHANGED <<chroma, frame, used, op, notes, article, response, answer>>

\* smart_summary_chain.invoke(...), SMART_SUMMARY_PROMPT | llm | StrOutputParser().
S_Generate(r) ==
    /\ op[r] = "get_contextual_summary" /\ pc[r] = "retrieved"
    /\ Called(r, {"generate"})
    /\ \/ \E text \in Responses :
             /\ response' = Put(response, r, text)
             /\ answer' = Put(answer, r, Str(text))
             /\ Advance(r, "generated", <<"prompt", "generate">>)
             /\ UNCHANGED <<faults, result>>
       \/ /\ Fault(r, "generate")
          /\ Raise(r, <<"prompt">>)
          /\ UNCHANGED <<response, answer>>
    /\ UNCHANGED <<chroma, frame, used, new_article, op, notes, article, retrieved>>

\* vectorstore.delete_collection(); return summary
S_Delete(r) ==
    /\ op[r] = "get_contextual_summary" /\ pc[r] = "generated"
    /\ Called(r, {"delete"})
    /\ \/ /\ DefaultCollection \in DOMAIN chroma
          /\ chroma' = delete_collection(chroma, DefaultCollection)
          /\ Return(r, answer[r], <<"destroy">>)
          /\ UNCHANGED faults
       \/ /\ Fault(r, "delete")
          /\ Raise(r, << >>)
          /\ UNCHANGED chroma
    /\ UNCHANGED <<frame, used, new_article, op, notes, article, retrieved, response, answer>>

\* ------------------- structure_financial_data and get_socratic_guidance

\* extraction_chain.invoke({"raw_text": raw_text}); return structured_data
X_Generate(r) ==
    /\ op[r] = "structure_financial_data" /\ pc[r] = "entry"
    /\ Called(r, {"generate"})
    /\ \/ \E text \in Responses :
             /\ response' = Put(response, r, text)
             /\ answer' = Put(answer, r, Str(text))
             /\ Return(r, Str(text), <<"prompt", "generate">>)
             /\ UNCHANGED faults
       \/ /\ Fault(r, "generate")
          /\ Raise(r, <<"prompt">>)
          /\ UNCHANGED <<response, answer>>
    /\ UNCHANGED <<chroma, frame, used, new_article, op, notes, article, retrieved>>

\* G_Generate that answers with an empty text when generation fails.
G_Generate_default(r) ==
    /\ op[r] = "get_socratic_guidance" /\ pc[r] = "entry"
    /\ used' = Put(used, r, notes[r])
    /\ Called(r, {"generate"})
    /\ \/ \E text \in Responses :
             /\ response' = Put(response, r, text)
             /\ answer' = Put(answer, r, Str(text))
             /\ Return(r, Str(text), <<"prompt", "generate">>)
             /\ UNCHANGED faults
       \/ /\ Fault(r, "generate")
          /\ Return(r, Str(""), <<"prompt">>)
          /\ UNCHANGED <<response, answer>>
    /\ UNCHANGED <<chroma, frame, new_article, op, notes, article, retrieved>>

\* notes_context = "\n".join(notes); inquiry_chain.invoke({...}); return guidance
G_Generate(r) ==
    /\ op[r] = "get_socratic_guidance" /\ pc[r] = "entry"
    /\ used' = Put(used, r, notes[r])
    /\ Called(r, {"generate"})
    /\ \/ \E text \in Responses :
             /\ response' = Put(response, r, text)
             /\ answer' = Put(answer, r, Str(text))
             /\ Return(r, Str(text), <<"prompt", "generate">>)
             /\ UNCHANGED faults
       \/ /\ Fault(r, "generate")
          /\ Raise(r, <<"prompt">>)
          /\ UNCHANGED <<response, answer>>
    /\ UNCHANGED <<chroma, frame, new_article, op, notes, article, retrieved>>

\* ------------------------------------------------------------------- Next

Next ==
    \E r \in Requests :
        \/ Call(r)
        \/ J_Empty(r) \/ J_Build(r) \/ J_Retrieve(r) \/ J_Generate(r) \/ J_Delete(r)
        \/ V_Empty(r) \/ V_Build(r) \/ V_Retrieve(r) \/ V_Generate(r) \/ V_Finally(r)
        \/ S_Empty(r) \/ S_Fetch(r) \/ S_Build(r) \/ S_Retrieve(r) \/ S_Generate(r)
        \/ S_Delete(r)
        \/ X_Generate(r) \/ G_Generate(r)

Spec == Init /\ [][Next]_vars

\* ---------------------------------------------------------------- main.py

\* The request followed through its endpoint.
Client == "r1"


\* The most notes the clients add to notes_db.
MaxDb == 3

\* Questions sent to /ask.
Questions == {"Hi ", "What grew?"}

GREETING_REPLY == "Hello! How can I help you with your research?"
ASK_EMPTY_NOTEBOOK == "My notebook is empty. Please add some notes first."
TOO_FEW_NOTES == "You need at least two notes to check for contradictions."
NO_CONTRADICTIONS == "No contradictions found among your recent notes."
MANUAL_NOTE_PREFIX == "Manual Note or AI Summary: "

greetings == {"hello", "hi", "hey"}

UpperCase == "ABCDEFGHIJKLMNOPQRSTUVWXYZ"
LowerCase == "abcdefghijklmnopqrstuvwxyz"

\* str.lower() of one character.
lower_char(c) ==
    IF \E i \in 1..Len(UpperCase) : SubSeq(UpperCase, i, i) = c
    THEN LET i == CHOOSE j \in 1..Len(UpperCase) : SubSeq(UpperCase, j, j) = c
         IN  SubSeq(LowerCase, i, i)
    ELSE c

\* str.lower()
RECURSIVE lower(_)
lower(s) ==
    IF s = "" THEN ""
    ELSE lower_char(SubSeq(s, 1, 1)) \o lower(SubSeq(s, 2, Len(s)))

\* Python truth of a str | None value.
Truthy(v) == v # NoneValue /\ v # Str("")

\* POST /add-note: notes_db.append(note.text).  Every parameter bound to the
\* list sees the new note.
add_note ==
    /\ Len(notes_db) < MaxDb
    /\ \E text \in NoteTexts : notes_db' = Append(notes_db, text)
    /\ notes' = [r \in Requests |-> IF aliased[r] THEN notes_db' ELSE notes[r]]
    /\ UNCHANGED <<chroma, pc, op, article, retrieved, response, answer, result,
                   calls, faults, events, endpoint, aliased, snapshot, new_note,
                   reply, used, new_article, report_vars>>

\* POST /add-manual-note: notes_db.append(f"Manual Note or AI Summary: {note.text}")
add_manual_note ==
    /\ Len(notes_db) < MaxDb
    /\ \E text \in NoteTexts :
          notes_db' = Append(notes_db, MANUAL_NOTE_PREFIX \o text)
    /\ notes' = [r \in Requests |-> IF aliased[r] THEN notes_db' ELSE notes[r]]
    /\ UNCHANGED <<chroma, pc, op, article, retrieved, response, answer, result,
                   calls, faults, events, endpoint, aliased, snapshot, new_note,
                   reply, used, new_article, report_vars>>

\* The request arrives at its endpoint.
Arrive(r, ep) ==
    /\ pc[r] = "idle"
    /\ endpoint' = Put(endpoint, r, ep)
    /\ snapshot' = Put(snapshot, r, notes_db)
    /\ UNCHANGED <<chroma, notes_db, new_note, article, retrieved, response,
                   answer, result, calls, faults, events, used, new_article,
                   report_vars>>

\* The handler answers without calling an agent function.
Answer(r, key, text) ==
    /\ reply' = Put(reply, r, Ok(key, Str(text)))
    /\ pc' = Put(pc, r, "replied")
    /\ UNCHANGED <<op, notes, aliased>>

\* The handler calls agent function o with notes_db itself as the notes.
CallWithNotesDb(r, o) ==
    /\ op' = Put(op, r, o)
    /\ notes' = Put(notes, r, notes_db)
    /\ aliased' = Put(aliased, r, TRUE)
    /\ pc' = Put(pc, r, "entry")
    /\ UNCHANGED reply

\* POST /ask
ask_question(r) ==
    /\ Arrive(r, "/ask")
    /\ \E question \in Questions :
          IF strip(lower(question)) \in greetings
          THEN Answer(r, "answer", GREETING_REPLY)
          ELSE IF notes_db = << >>
          THEN Answer(r, "answer", ASK_EMPTY_NOTEBOOK)
          ELSE CallWithNotesDb(r, "get_jigyasa_response")

\* POST /check-contradictions: if len(notes_db) < 2: return ...
run_contradiction_check(r) ==
    /\ Arrive(r, "/check-contradictions")
    /\ IF Len(notes_db) < 2
       THEN Answer(r, "result", TOO_FEW_NOTES)
       ELSE /\ pc' = Put(pc, r, "latest_note")
            /\ UNCHANGED <<op, notes, aliased, reply>>

\* latest_note = notes_db[-1]
RC_LatestNote(r) ==
    /\ pc[r] = "latest_note"
    /\ new_note' = Put(new_note, r, notes_db[Len(notes_db)])
    /\ pc' = Put(pc, r, "previous_notes")
    /\ UNCHANGED <<chroma, op, notes, article, retrieved, response, answer,
                   result, calls, faults, events, notes_db, endpoint, aliased,
                   snapshot, reply, used, new_article, report_vars>>

\* previous_notes = notes_db[:-1]; check_for_contradictions(latest_note, previous_notes)
RC_PreviousNotes(r) ==
    /\ pc[r] = "previous_notes"
    /\ notes' = Put(notes, r, SubSeq(notes_db, 1, Len(notes_db) - 1))
    /\ op' = Put(op, r, "check_for_contradictions")
    /\ pc' = Put(pc, r, "entry")
    /\ UNCHANGED <<chroma, article, retrieved, response, answer, result, calls,
                   faults, events, frame, used, new_article>>

\* POST /extract-data
extract_data(r) ==
    /\ Arrive(r, "/extract-data")
    /\ op' = Put(op, r, "structure_financial_data")
    /\ pc' = Put(pc, r, "entry")
    /\ UNCHANGED <<notes, aliased, reply>>

\* POST /guide-research
guide_research(r) ==
    /\ Arrive(r, "/guide-research")
    /\ CallWithNotesDb(r, "get_socratic_guidance")

\* POST /summarize-url
summarize_url(r) ==
    /\ Arrive(r, "/summarize-url")
    /\ CallWithNotesDb(r, "get_contextual_summary")

\* The body the handler makes of what the agent function returned.
Body(ep, v) ==
    CASE ep = "/ask" -> Ok("answer", v)
      [] ep = "/check-contradictions" ->
            Ok("result", IF Truthy(v) THEN v ELSE Str(NO_CONTRADICTIONS))
      [] ep = "/extract-data" -> Ok("structured_data", v)
      [] ep = "/guide-research" -> Ok("guidance", v)
      [] ep = "/summarize-url" -> Ok("summary", v)

\* The agent function is back: the handler returns its body, or the
\* exception leaves the handler and the server answers 500.
Respond(r) ==
    /\ endpoint[r] # "none" /\ Terminal(r)
    /\ reply' = Put(reply, r, IF pc[r] = "raised" THEN ServerError
                              ELSE Body(endpoint[r], result[r]))
    /\ pc' = Put(pc, r, "replied")
    /\ UNCHANGED <<chroma, op, notes, article, retrieved, response, answer,
                   result, calls, faults, events, notes_db, endpoint, aliased,
                   snapshot, new_note, used, new_article, report_vars>>

\* One request through its endpoint while other clients add notes.  The
\* empty-list returns of get_jigyasa_response and check_for_contradictions
\* are not steps here: /ask calls only with a non-empty notes_db and
\* /check-contradictions only with at least one previous note.
NextService ==
    \/ add_note \/ add_manual_note
    \/ ask_question(Client) \/ extract_data(Client)
    \/ guide_research(Client) \/ summarize_url(Client)
    \/ run_contradiction_check(Client)
    \/ RC_LatestNote(Client) \/ RC_PreviousNotes(Client)
    \/ J_Build(Client) \/ J_Retrieve(Client) \/ J_Generate(Client) \/ J_Delete(Client)
    \/ V_Build(Client) \/ V_Retrieve(Client) \/ V_Generate(Client) \/ V_Finally(Client)
    \/ S_Empty(Client) \/ S_Fetch(Client) \/ S_Build(Client) \/ S_Retrieve(Client)
    \/ S_Generate(Client) \/ S_Delete(Client)
    \/ X_Generate(Client) \/ G_Generate(Client)
    \/ Respond(Client)

SpecService == Init /\ [][NextService]_vars

\* ------------------------------------------------------------ long notes

\* A note of two lines, the first a word of 600 characters and one of 1200;
\* a note of 300 short words; a note of two paragraphs.
LongNote ==
    Repeat("a", 600) \o " " \o Repeat("b", 1200) \o "\n" \o Repeat("c", 300)
WordsNote == Repeat("tick ", 300)
ParagraphsNote == Repeat("word ", 150) \o "\n\n\n" \o Repeat("next ", 150)

\* The notes lists the index-building functions are called with.
LongNoteLists ==
    { << >>, <<LongNote>>, <<WordsNote>>, <<LongNote, WordsNote>> }
        \cup { <<ParagraphsNote, t>> : t \in NoteTexts }

\* A worker thread enters one of the index-building functions, with notes
\* of any length.
CallIndexOp(r) ==
    /\ pc[r] = "idle"
    /\ \E o \in IndexOps, ns \in LongNoteLists :
          /\ op' = Put(op, r, o)
          /\ notes' = Put(notes, r, ns)
    /\ pc' = Put(pc, r, "entry")
    /\ UNCHANGED <<chroma, article, retrieved, response, answer, result,
                   calls, faults, events, frame, used, new_article>>

NextIndex ==
    \/ CallIndexOp(Client)
    \/ J_Empty(Client) \/ J_Build(Client) \/ J_Retrieve(Client)
    \/ J_Generate(Client) \/ J_Delete(Client)
    \/ V_Empty(Client) \/ V_Build(Client) \/ V_Retrieve(Client)
    \/ V_Generate(Client) \/ V_Finally(Client)
    \/ S_Empty(Client) \/ S_Fetch(Client) \/ S_Build(Client)
    \/ S_Retrieve(Client) \/ S_Generate(Client) \/ S_Delete(Client)

SpecIndex == Init /\ [][NextIndex]_vars

\* ------------------------------------------------------ financial_tools.py

\* The most fields of the input dictionary that differ from a complete one.
MaxPerturbed == 2

\* Numbers are exact fractions n/d in lowest terms with d > 0: the floats of
\* the code without their rounding error.
RECURSIVE GCD(_, _)
GCD(a, b) == IF b = 0 THEN a ELSE GCD(b, a % b)

Abs(x) == IF x < 0 THEN 0 - x ELSE x

Q(n, d) ==
    LET g == GCD(Abs(n), Abs(d))
        sign == IF d < 0 THEN 0 - 1 ELSE 1
    IN  [n |-> (sign * n) \div g, d |-> (sign * d) \div g]

QInt(i) == [n |-> i, d |-> 1]
QAdd(a, b) == Q(a.n * b.d + b.n * a.d, a.d * b.d)
QSub(a, b) == Q(a.n * b.d - b.n * a.d, a.d * b.d)
QMul(a, b) == Q(a.n * b.n, a.d * b.d)
QDiv(a, b) == Q(a.n * b.d, a.d * b.n)

RECURSIVE Pow10(_)
Pow10(k) == IF k = 0 THEN 1 ELSE 10 * Pow10(k - 1)

\* round(x, ndigits): to the nearest multiple of 10^-ndigits, a tie to the even one.
round(x, ndigits) ==
    LET scale == Pow10(ndigits)
        m == x.n * scale
        f == m \div x.d
        rem == m - f * x.d
        r == IF 2 * rem < x.d THEN f
             ELSE IF 2 * rem > x.d THEN f + 1
             ELSE IF f % 2 = 0 THEN f ELSE f + 1
    IN  Q(r, scale)

\* Values of the dictionaries: a number, a float whose magnitude is not
\* followed (the discounted cash flows), None, 'N/A'; Absent marks a key the
\* input dictionary does not have.
Num(x) == [tag |-> "num", val |-> x]
FloatValue == [tag |-> "float"]
NA == Str("N/A")
Absent == [tag |-> "absent"]
DCF_ERROR == "Invalid inputs for DCF calculation"

IsNumber(v) == v.tag \in {"num", "float"}

\* Python truth of a number or None.
is_true(v) == v.tag = "float" \/ (v.tag = "num" /\ v.val.n # 0)

\* d.get(k, default)
get(d, k, default) ==
    IF k \notin DOMAIN d \/ d[k] = Absent THEN default ELSE d[k]

\* d[k] = v
Set(d, k, v) == [x \in DOMAIN d \cup {k} |-> IF x = k THEN v ELSE d[x]]

\* d.update(e)
Update(d, e) ==
    [x \in DOMAIN d \cup DOMAIN e |-> IF x \in DOMAIN e THEN e[x] ELSE d[x]]

Fields ==
    { "net_income", "total_revenue", "total_equity", "total_assets",
      "total_debt", "risk_free_rate", "beta", "market_risk_premium",
      "market_cap", "tax_rate", "free_cash_flow", "revenue_growth_rate",
      "terminal_growth_rate", "projection_years", "cash_and_equivalents",
      "shares_outstanding", "current_price" }

\* A dictionary with every field filled in.
CompleteData ==
    [f \in Fields |->
        Num(CASE f = "net_income" -> QInt(5)
              [] f = "total_revenue" -> QInt(100)
              [] f = "total_equity" -> QInt(50)
              [] f = "total_assets" -> QInt(200)
              [] f = "total_debt" -> QInt(10)
              [] f = "risk_free_rate" -> QInt(1)
              [] f = "beta" -> QInt(1)
              [] f = "market_risk_premium" -> QInt(9)
              [] f = "market_cap" -> QInt(10)
              [] f = "tax_rate" -> Q(1, 5)
              [] f = "free_cash_flow" -> QInt(8)
              [] f = "revenue_growth_rate" -> QInt(5)
              [] f = "terminal_growth_rate" -> QInt(2)
              [] f = "projection_years" -> QInt(5)
              [] f = "cash_and_equivalents" -> QInt(3)
              [] f = "shares_outstanding" -> QInt(4)
              [] f = "current_price" -> QInt(20))]

\* What a field holds instead: nothing, None, zero, the negative.
Perturbed(v) ==
    { Absent, NoneValue, Num(QInt(0)), Num(QSub(QInt(0), v.val)) }

\* The input dictionaries: the complete one with up to MaxPerturbed fields
\* missing, None, zero or negative.
DataSets ==
    UNION { { [f \in Fields |-> IF f \in S THEN c[f] ELSE CompleteData[f]] :
                c \in { c \in [S -> UNION { Perturbed(CompleteData[f]) : f \in S }] :
                          \A f \in S : c[f] \in Perturbed(CompleteData[f]) } } :
            S \in { T \in SUBSET Fields : Cardinality(T) <= MaxPerturbed } }

ASSUMED_COST_OF_DEBT == Q(5, 100)
DEFAULT_PROJECTION_YEARS == 5


Hundred == QInt(100)

\* calculate_cost_of_equity: risk_free_rate + (beta * market_risk_premium)
calculate_cost_of_equity(risk_free_rate, beta, market_risk_premium) ==
    QAdd(risk_free_rate, QMul(beta, market_risk_premium))

\* calculate_wacc: None when equity and debt sum to zero, else the weighted
\* cost as a percentage rounded to two places.
calculate_wacc(market_value_equity, market_value_debt, cost_of_equity, cost_of_debt, tax_rate) ==
    LET total_value == QAdd(market_value_equity, market_value_debt)
        equity_weight == QDiv(market_value_equity, total_value)
        debt_weight == QDiv(market_value_debt, total_value)
        wacc == QAdd(QMul(equity_weight, cost_of_equity),
                     QMul(QMul(debt_weight, cost_of_debt),
                          QSub(QInt(1), tax_rate)))
    IN  IF total_value.n = 0 THEN NoneValue
        ELSE Num(round(QMul(wacc, Hundred), 2))

\* What a call gives back: a value, or an exception.
Returned(v) == [raised |-> FALSE, value |-> v]
Raised == [raised |-> TRUE]

\* calculate_dcf_valuation: the error dictionary when free_cash_flow or wacc
\* is zero or wacc is negative.  Else range(1, years + 1) raises when years
\* is None or not an integer, projected_fcf[-1] raises when years < 1, and
\* the terminal value divides by wacc - terminal_growth.  The four values it
\* returns are floats whose magnitude is not followed.
calculate_dcf_valuation(free_cash_flow, growth_rate, terminal_growth, wacc, years) ==
    IF free_cash_flow.n = 0 \/ wacc.n = 0 \/ wacc.n <= 0
    THEN Returned([k \in {"error"} |-> Str(DCF_ERROR)])
    ELSE IF years.tag # "num" \/ years.val.d # 1 THEN Raised
    ELSE IF years.val.n < 1 THEN Raised
    ELSE IF QSub(wacc, terminal_growth).n = 0 THEN Raised
    ELSE Returned([k \in {"enterprise_value", "pv_projected_fcf",
                          "pv_terminal_value", "terminal_value"} |-> FloatValue])

\* if data.get(a) and data.get(b): round((data[a] / data[b]) * factor, 2)
\* else: 'N/A'.  (The except branch is not reached: both are numbers, the
\* divisor not zero.)
ratio(a, b, factor) ==
    IF is_true(get(data, a, NoneValue)) /\ is_true(get(data, b, NoneValue))
    THEN Num(round(QMul(QDiv(data[a].val, data[b].val), QInt(factor)), 2))
    ELSE NA

AgentAndServiceUnchanged ==
    UNCHANGED <<chroma, pc, op, notes, article, retrieved, response, answer,
                result, calls, faults, events, service_vars, used, new_article>>

\* One section of calculate_final_report sets key to v and the next follows.
Section(this, key, v, next) ==
    /\ section = this
    /\ results' = Set(results, key, v)
    /\ section' = next
    /\ UNCHANGED data
    /\ AgentAndServiceUnchanged

\* calculate_final_report(data): results = {}
R_Call ==
    /\ section = "idle"
    /\ data' \in DataSets
    /\ results' = << >>
    /\ section' = "profit_margin"
    /\ AgentAndServiceUnchanged

R_ProfitMargin ==
    Section("profit_margin", "profit_margin",
            ratio("net_income", "total_revenue", 100), "roe")

R_Roe ==
    Section("roe", "roe", ratio("net_income", "total_equity", 100), "roa")

R_Roa ==
    Section("roa", "roa", ratio("net_income", "total_assets", 100),
            "debt_to_equity")

R_DebtToEquity ==
    Section("debt_to_equity", "debt_to_equity",
            ratio("total_debt", "total_equity", 1), "cost_of_equity")

\* if all([risk_free_rate, beta, market_risk_premium]): ... else 'N/A'
R_CostOfEquity ==
    Section("cost_of_equity", "cost_of_equity",
        IF \A f \in {"risk_free_rate", "beta", "market_risk_premium"} :
               is_true(get(data, f, NoneValue))
        THEN Num(round(QMul(calculate_cost_of_equity(
                                QDiv(data["risk_free_rate"].val, Hundred),
                                data["beta"].val,
                                QDiv(data["market_risk_premium"].val, Hundred)),
                            Hundred), 2))
        ELSE NA,
        "wacc")

\* market_value_equity = data.get('market_cap', 0); ...; results['wacc'] = wacc
R_Wacc ==
    LET market_value_equity == get(data, "market_cap", Num(QInt(0)))
        market_value_debt == get(data, "total_debt", Num(QInt(0)))
    IN  Section("wacc", "wacc",
            IF /\ is_true(market_value_equity) /\ is_true(market_value_debt)
               /\ results["cost_of_equity"] # NA
               /\ is_true(get(data, "tax_rate", NoneValue))
            THEN calculate_wacc(market_value_equity.val, market_value_debt.val,
                                QDiv(results["cost_of_equity"].val, Hundred),
                                ASSUMED_COST_OF_DEBT, data["tax_rate"].val)
            ELSE NA,
            "dcf")

ValuationNA ==
    [k \in {"enterprise_value", "pv_projected_fcf", "pv_terminal_value"} |-> NA]

\* The valuation section: results.update(dcf_results), or the three keys
\* 'N/A' in the else branch and when the try block raised (results['wacc']
\* is None, or calculate_dcf_valuation raised).
R_Dcf ==
    /\ section = "dcf"
    /\ LET dcf_results ==
               IF results["wacc"] = NoneValue THEN Raised
               ELSE calculate_dcf_valuation(
                        data["free_cash_flow"].val,
                        QDiv(data["revenue_growth_rate"].val, Hundred),
                        QDiv(data["terminal_growth_rate"].val, Hundred),
                        QDiv(results["wacc"].val, Hundred),
                        get(data, "projection_years", Num(QInt(DEFAULT_PROJECTION_YEARS))))
       IN  results' =
               IF /\ \A f \in {"free_cash_flow", "revenue_growth_rate",
                               "terminal_growth_rate"} :
                         is_true(get(data, f, NoneValue))
                  /\ results["wacc"] # NA
               THEN IF dcf_results.raised
                    THEN Update(results, ValuationNA)
                    ELSE Update(results, dcf_results.value)
               ELSE Update(results, ValuationNA)
    /\ section' = "equity"
    /\ UNCHANGED data
    /\ AgentAndServiceUnchanged

EquityNA ==
    [k \in {"equity_value", "intrinsic_value_per_share",
            "upside_downside_percent"} |-> NA]

\* The equity section: the three keys computed, or 'N/A' in the else branch
\* and when results['enterprise_value'] raised KeyError.
R_Equity ==
    /\ section = "equity"
    /\ results' =
           IF /\ get(results, "enterprise_value", NoneValue) # NA
              /\ \A f \in {"total_debt", "cash_and_equivalents", "shares_outstanding"} :
                     is_true(get(data, f, NoneValue))
           THEN IF "enterprise_value" \notin DOMAIN results
                THEN Update(results, EquityNA)
                ELSE Update(results,
                        [k \in DOMAIN EquityNA |->
                            IF k = "upside_downside_percent"
                               /\ ~is_true(get(data, "current_price", NoneValue))
                            THEN NA ELSE FloatValue])
           ELSE Update(results, EquityNA)
    /\ section' = "return"
    /\ UNCHANGED data
    /\ AgentAndServiceUnchanged

\* return results
R_Return ==
    /\ section = "return"
    /\ section' = "returned"
    /\ UNCHANGED <<data, results>>
    /\ AgentAndServiceUnchanged

NextReport ==
    \/ R_Call \/ R_ProfitMargin \/ R_Roe \/ R_Roa \/ R_DebtToEquity
    \/ R_CostOfEquity \/ R_Wacc \/ R_Dcf \/ R_Equity \/ R_Return

SpecReport == Init /\ [][NextReport]_vars

\* ----------------------------------------------------------------- claims

Did(r, step) == step \in Range(events[r])

\* C1: in the three index-building functions, every index that was built has
\* its teardown called exactly once by the time the call returns or fails,
\* whatever the retrieval/generation step did.
C1_TeardownOncePerBuild ==
    \A r \in Requests :
        (op[r] \in IndexOps /\ Terminal(r) /\ Did(r, "build"))
            => calls[r].delete = 1

\* C2: check_for_contradictions with non-empty existing notes: a failure of
\* retrieval or generation never leaves the function; the call ends by
\* returning the verifier error, which is neither None nor any value the
\* test of a response can yield.
C2_VerifierFailureIsLocal ==
    \A r \in Requests :
        ( /\ op[r] = "check_for_contradictions"
          /\ notes[r] # << >>
          /\ faults[r] \cap {"retrieve", "generate"} # {} )
            => /\ pc[r] \in {"finally", "returned"}
               /\ answer[r] = Str(VERIFIER_ERROR)
               /\ pc[r] = "returned" => result[r] = Str(VERIFIER_ERROR)
               /\ Str(VERIFIER_ERROR) # NoneValue
               /\ \A t \in Responses : verifier_result(t) # Str(VERIFIER_ERROR)

C2_Witness ==
    \E r \in Requests :
        /\ op[r] = "check_for_contradictions"
        /\ "generate" \in faults[r]
        /\ pc[r] = "returned"

\* C3: no call of an agent function ends with an exception leaving it.
C3_NoFaultEscapes ==
    \A r \in Requests : pc[r] # "raised"

\* C4: a call's retrieval returns only documents made from its own notes, and
\* while a call has built its index and not yet queried it, the collection it
\* will query exists and holds exactly its own documents.
C4_IndexesIndependent ==
    \A r \in Requests :
        /\ \A d \in retrieved[r] : d.owner = r
        /\ (op[r] \in IndexOps /\ pc[r] = "built")
              => /\ DefaultCollection \in DOMAIN chroma
                 /\ chroma[DefaultCollection] =
                        Documents(r, IF op[r] = "get_contextual_summary"
                                     THEN notes[r]
                                     ELSE split_documents(notes[r]))

\* C5 (as stated): when generation returned a text, check_for_contradictions
\* returns the trimmed text exactly if the text starts with CONTRADICTION:,
\* and None otherwise; never the verifier error.
C5_ReturnsIffStartsWithMarker ==
    \A r \in Requests :
        ( /\ op[r] = "check_for_contradictions"
          /\ pc[r] = "returned"
          /\ Did(r, "generate") )
            => /\ (result[r] = Str(strip(response[r])))
                     <=> startswith(response[r], CONTRADICTION_MARKER)
               /\ ~startswith(response[r], CONTRADICTION_MARKER)
                     => result[r] = NoneValue
               /\ result[r] # Str(VERIFIER_ERROR)

\* C5 (amended): when generation returned a text, check_for_contradictions
\* returns the trimmed text exactly if the text, once trimmed of leading and
\* trailing whitespace, starts with CONTRADICTION:, and None otherwise; never
\* the verifier error.
C5_ReturnsIffTrimmedStartsWithMarker ==
    \A r \in Requests :
        ( /\ op[r] = "check_for_contradictions"
          /\ pc[r] = "returned"
          /\ Did(r, "generate") )
            => /\ (result[r] = Str(strip(response[r])))
                     <=> startswith(strip(response[r]), CONTRADICTION_MARKER)
               /\ ~startswith(strip(response[r]), CONTRADICTION_MARKER)
                     => result[r] = NoneValue
               /\ result[r] # Str(VERIFIER_ERROR)

C5_Witness ==
    \E r \in Requests :
        /\ op[r] = "check_for_contradictions"
        /\ pc[r] = "returned"
        /\ response[r] = " CONTRADICTION: figures conflict.\n"
        /\ result[r] = Str("CONTRADICTION: figures conflict.")

\* C6: in the three index-building functions a failure of delete_collection
\* does not leave the function: the call returns the value it had produced.
C6_TeardownFailureSwallowed ==
    \A r \in Requests :
        (op[r] \in IndexOps /\ "delete" \in faults[r])
            => /\ pc[r] = "returned"
               /\ result[r] = answer[r]

\* C7: with an empty notes list, synthesis, contradiction check and
\* contextual summary return their fixed value and call none of embedding,
\* index build, fetch, generation (or teardown).
C7_EmptyNotesShortCircuit ==
    \A r \in Requests :
        (op[r] \in IndexOps /\ notes[r] = << >>)
            => /\ calls[r] = NoCalls
               /\ pc[r] \in {"entry", "returned"}
               /\ pc[r] = "returned" =>
                    result[r] =
                        CASE op[r] = "get_jigyasa_response" -> Str(EMPTY_NOTEBOOK)
                          [] op[r] = "check_for_contradictions" -> NoneValue
                          [] op[r] = "get_contextual_summary" ->
                                Str(SUMMARY_EMPTY_NOTEBOOK)

C7_Witness ==
    \E r1, r2 \in Requests :
        /\ op[r1] = "get_contextual_summary" /\ op[r2] = "check_for_contradictions"
        /\ notes[r1] = << >> /\ notes[r2] = << >>
        /\ pc[r1] = "returned" /\ pc[r2] = "returned"

\* C8: get_contextual_summary with non-empty notes: when the fetch or parse
\* raises, the call returns the "Failed to fetch or parse" error string, no
\* index is built and embedding and generation are never called.
C8_FetchFailure ==
    \A r \in Requests :
        ( /\ op[r] = "get_contextual_summary"
          /\ notes[r] # << >>
          /\ "fetch" \in faults[r] )
            => /\ pc[r] = "returned"
               /\ result[r].tag = "str"
               /\ startswith(result[r].val, FETCH_FAILED_PREFIX)
               /\ calls[r].build = 0 /\ calls[r].embed = 0
               /\ calls[r].generate = 0
               /\ ~Did(r, "build")
               /\ OwnDocuments(r) = {}

C8_Witness ==
    \E r \in Requests :
        /\ op[r] = "get_contextual_summary"
        /\ "fetch" \in faults[r]
        /\ pc[r] = "returned"
        /\ result[r] = Str("Error: Failed to fetch or parse the URL. Details: timeout")

\* C9: get_contextual_summary with non-empty notes: when the fetch succeeds
\* and the extracted text is empty, the call returns the "could not extract"
\* string, which is neither a fetch-failure string nor the empty-notebook
\* message, and neither index build nor generation is called.
C9_EmptyArticle ==
    \A r \in Requests :
        ( /\ op[r] = "get_contextual_summary"
          /\ notes[r] # << >>
          /\ Did(r, "fetch")
          /\ article[r] = "" )
            => /\ pc[r] = "returned"
               /\ result[r] = Str(COULD_NOT_EXTRACT)
               /\ \A e \in FetchErrors : result[r] # fetch_failed(e)
               /\ ~startswith(result[r].val, FETCH_FAILED_PREFIX)
               /\ result[r] # Str(SUMMARY_EMPTY_NOTEBOOK)
               /\ calls[r].build = 0 /\ calls[r].embed = 0
               /\ calls[r].generate = 0

C9_Witness ==
    \E r \in Requests :
        /\ op[r] = "get_contextual_summary"
        /\ notes[r] # << >>
        /\ Did(r, "fetch")
        /\ article[r] = ""
        /\ pc[r] = "returned"

\* The place of a step in the pipeline.
Rank(step) ==
    CASE step = "fetch" -> 0
      [] step = "build" -> 1
      [] step = "retrieve" -> 2
      [] step = "prompt" -> 3
      [] step = "generate" -> 4
      [] step = "destroy" -> 5
      [] step = "return" -> 6
      [] step = "raise" -> 6

\* The steps of a call were taken in pipeline order, none twice, and none
\* without the steps it depends on.
InOrder(r) ==
    /\ \A i, j \in DOMAIN events[r] :
          i < j => Rank(events[r][i]) < Rank(events[r][j])
    /\ Did(r, "retrieve") => Did(r, "build")
    /\ Did(r, "prompt") => Did(r, "retrieve")
    /\ Did(r, "generate") => Did(r, "prompt")
    /\ Did(r, "destroy") => Did(r, "build")

\* C10 (as stated): within one call of an index-building function the steps
\* are taken in the order build, retrieve, prompt, generate, destroy, return,
\* and the call never returns a generated result while documents of its
\* index still exist.
C10_StrictOrder ==
    \A r \in Requests :
        op[r] \in IndexOps
            => /\ InOrder(r)
               /\ (pc[r] = "returned" /\ Did(r, "generate"))
                     => /\ Did(r, "destroy")
                        /\ OwnDocuments(r) = {}

\* C10 (amended): within one call of an index-building function the steps
\* are taken in the order build, retrieve, prompt, generate, destroy, return;
\* a generated result is returned only after delete_collection was called
\* once; get_jigyasa_response and get_contextual_summary return it only
\* when that call succeeded, check_for_contradictions also when it failed,
\* and only then can documents of the call's index outlive the return.
C10_OwnStepsInOrder ==
    \A r \in Requests :
        op[r] \in IndexOps
            => /\ InOrder(r)
               /\ (pc[r] = "returned" /\ Did(r, "generate"))
                     => /\ calls[r].delete = 1
                        /\ Did(r, "destroy") \/ "delete" \in faults[r]
                        /\ "delete" \in faults[r]
                              => op[r] = "check_for_contradictions"
                        /\ Did(r, "destroy") => OwnDocuments(r) = {}

C10_Witness ==
    \E r \in Requests :
        /\ op[r] = "get_jigyasa_response"
        /\ events[r] = <<"build", "retrieve", "prompt", "generate", "destroy", "return">>

\* C12: in synthesis, contextual summary, structured extraction and Socratic
\* guidance a failure of the generation step ends the call with an exception
\* and no returned value, so it cannot be taken for any text result: no
\* default or empty text is returned in its place.
C12_GenerationFailureSurfaces ==
    \A r \in Requests :
        ( /\ op[r] \in Ops \ {"check_for_contradictions"}
          /\ "generate" \in faults[r] )
            => /\ pc[r] = "raised"
               /\ result[r] = NoResult
               /\ \A t \in Responses : result[r] # Str(t)

C12_Witness ==
    \E r1, r2 \in Requests :
        /\ op[r1] = "get_socratic_guidance" /\ op[r2] = "get_contextual_summary"
        /\ "generate" \in faults[r1] /\ "generate" \in faults[r2]
        /\ pc[r1] = "raised" /\ pc[r2] = "raised"

\* C13: the text get_contextual_summary invokes its chain with is the first
\* min(length, 8000) characters of the extracted article text: a text of at
\* most 8000 characters goes unchanged, a longer one is cut to its first 8000.
C13_ArticleTruncated ==
    \A r \in Requests :
        ( /\ op[r] = "get_contextual_summary"
          /\ Did(r, "build")
          /\ pc[r] # "built" )
            => /\ Len(new_article[r]) = Min(Len(article[r]), 8000)
               /\ new_article[r] = SubSeq(article[r], 1, Len(new_article[r]))
               /\ Len(article[r]) <= 8000 => new_article[r] = article[r]

C13_Witness ==
    \E r1, r2 \in Requests :
        /\ op[r1] = "get_contextual_summary" /\ op[r2] = "get_contextual_summary"
        /\ pc[r1] = "returned" /\ pc[r2] = "returned"
        /\ Len(article[r1]) = 10000 /\ Len(new_article[r1]) = 8000
        /\ Len(article[r2]) = 8000 /\ new_article[r2] = article[r2]

\* The call has read its notes: made its documents of them, or joined them.
HasReadNotes(r) ==
    \/ calls[r].build > 0
    \/ op[r] = "get_socratic_guidance" /\ calls[r].generate > 0

\* C11: a request to /ask, /guide-research or /summarize-url works on the
\* notes as they were when the request began: the notes it indexes or joins
\* are exactly those, whatever was appended since.
C11_WorksOnSnapshot ==
    \A r \in Requests :
        ( /\ endpoint[r] \in {"/ask", "/guide-research", "/summarize-url"}
          /\ HasReadNotes(r) )
            => used[r] = snapshot[r]

\* C15: a request to /check-contradictions that began with fewer than two
\* notes runs no check; otherwise new_note is the last note of one value
\* notes_db had during the request and existing_notes are exactly the notes
\* before it in that same value.
C15_LatestAgainstPrevious ==
    \A r \in Requests :
        endpoint[r] = "/check-contradictions" =>
            /\ Len(snapshot[r]) < 2 => (op[r] = "none" /\ calls[r] = NoCalls)
            /\ op[r] = "check_for_contradictions" =>
                  \E n \in Len(snapshot[r])..Len(notes_db) :
                      /\ new_note[r] = notes_db[n]
                      /\ notes[r] = SubSeq(notes_db, 1, n - 1)

\* fragment is a contiguous piece of note.
IsPieceOf(fragment, note) ==
    \E i \in 1..(Len(note) - Len(fragment) + 1) :
        /\ SubSeq(note, i, i) = SubSeq(fragment, 1, 1)
        /\ SubSeq(note, i, i + Len(fragment) - 1) = fragment

\* The fragments held by some index.
Fragments == UNION { chroma[n] : n \in DOMAIN chroma }

\* C14 (as stated): every fragment inserted into an index is a contiguous
\* piece of one of the notes of the call that inserted it and is at most
\* 1000 characters long, in get_jigyasa_response, check_for_contradictions
\* and get_contextual_summary alike.
C14_FragmentsBounded ==
    \A d \in Fragments :
        /\ \E i \in DOMAIN used[d.owner] : IsPieceOf(d.text, used[d.owner][i])
        /\ Len(d.text) <= 1000

\* C14 (amended): every fragment inserted into an index is a contiguous piece
\* of one of the notes of the call that inserted it; in get_jigyasa_response
\* and check_for_contradictions it is at most 1000 characters long, in
\* get_contextual_summary it is one whole note, however long.
C14_FragmentsWithinOneNote ==
    \A d \in Fragments :
        /\ \E i \in DOMAIN used[d.owner] : IsPieceOf(d.text, used[d.owner][i])
        /\ op[d.owner] \in {"get_jigyasa_response", "check_for_contradictions"}
              => Len(d.text) <= 1000
        /\ op[d.owner] = "get_contextual_summary"
              => d.text = used[d.owner][d.idx]

C14_Witness ==
    /\ op[Client] = "check_for_contradictions"
    /\ used[Client] = <<LongNote, WordsNote>>
    /\ pc[Client] = "built"
    /\ { d.text : d \in Fragments } =
          { Repeat("a", 600), Repeat("b", 999), Repeat("b", 301),
            Repeat("c", 300), "tick" \o Repeat(" tick", 199),
            "tick" \o Repeat(" tick", 119) }

ReportKeys ==
    { "profit_margin", "roe", "roa", "debt_to_equity", "cost_of_equity",
      "wacc", "enterprise_value", "pv_projected_fcf", "pv_terminal_value",
      "equity_value", "intrinsic_value_per_share", "upside_downside_percent" }

\* C16: calculate_final_report returns, and what it returns has every key of
\* the report, each holding a number or 'N/A', whatever fields of the input
\* are missing, zero, negative or None.
C16_ReportComplete ==
    section = "returned" =>
        \A k \in ReportKeys :
            /\ k \in DOMAIN results
            /\ IsNumber(results[k]) \/ results[k] = NA

====
